---- MODULE Spec2Model ----
(***************************************************************************)
(* Model of the Personal Digital Twin wizard (frontend/src/App.tsx and its *)
(* child components ResumeUpload and GitHubConnect): the three-step        *)
(* wizard state, the upload and username validators, and the two-stage     *)
(* orchestration run of App.handleGitHubConnect.                           *)
(*                                                                         *)
(* One action is one JavaScript task: an event handler run to completion,  *)
(* or the continuation of handleGitHubConnect after an awaited call has    *)
(* resolved.  React state that a component keeps with useState is lost     *)
(* when the component is unmounted by the step gating of App's render.     *)
(***************************************************************************)
EXTENDS Integers, Sequences, FiniteSets, TLC

----------------------------------------------------------------------------
(* Bounds of the model *)

\* longest text the user types into the username field
MaxHandleLen == 2

\* cap on simultaneously outstanding runs (never reached when the UI gating works)
MaxInFlight == 2

\* exports recorded during one stay on the results step
MaxExports == 2

\* readings of the clock that new Date() can return
MaxClock == 2

\* longest handle of the exhaustive part of the validator's inputs
MaxProbeLen == 3

----------------------------------------------------------------------------
(* Optional values: undefined / null of the source *)

None == [some |-> FALSE]

Some(v) == [some |-> TRUE, val |-> v]

----------------------------------------------------------------------------
(* Files and the upload validator (ResumeUpload.validateFile) *)

validTypes == {"application/pdf", "application/msword",
               "application/vnd.openxmlformats-officedocument.wordprocessingml.document"}

maxSize == 10 * 1024 * 1024

\* MIME types the browser may report for a dropped file
FileTypes == validTypes \cup {"text/plain"}

\* sizes around the limit
FileSizes == {maxSize, maxSize + 1}

\* the name under which a file of each type is picked
FileName(type) ==
    CASE type = "application/pdf" -> "resume.pdf"
      [] type = "application/msword" -> "resume.doc"
      [] type = "application/vnd.openxmlformats-officedocument.wordprocessingml.document"
           -> "resume.docx"
      [] OTHER -> "notes.txt"

Files == {[name |-> FileName(t), type |-> t, size |-> z] : t \in FileTypes, z \in FileSizes}

ErrUnsupportedType == "Please upload a PDF or Word document"

ErrTooLarge == "File size must be less than 10MB"

\* validateFile rejecting a file of exactly maxSize bytes
validateFileExclusiveLimit(file) ==
    IF file.type \notin validTypes
      THEN [ok |-> FALSE, error |-> ErrUnsupportedType]
      ELSE IF file.size >= maxSize
             THEN [ok |-> FALSE, error |-> ErrTooLarge]
             ELSE [ok |-> TRUE, error |-> ""]

\* validateFile with its two checks in the other order
validateFileSizeFirst(file) ==
    IF file.size > maxSize
      THEN [ok |-> FALSE, error |-> ErrTooLarge]
      ELSE IF file.type \notin validTypes
             THEN [ok |-> FALSE, error |-> ErrUnsupportedType]
             ELSE [ok |-> TRUE, error |-> ""]

\* validateFile as a function of the file: the boolean it returns and the
\* text it passes to setError
validateFile(file) ==
    IF file.type \notin validTypes
      THEN [ok |-> FALSE, error |-> ErrUnsupportedType]
      ELSE IF file.size > maxSize
             THEN [ok |-> FALSE, error |-> ErrTooLarge]
             ELSE [ok |-> TRUE, error |-> ""]

----------------------------------------------------------------------------
(* Handles and the username validator (GitHubConnect.validateUsername) *)

Letters == {"a","b","c","d","e","f","g","h","i","j","k","l","m",
            "n","o","p","q","r","s","t","u","v","w","x","y","z",
            "A","B","C","D","E","F","G","H","I","J","K","L","M",
            "N","O","P","Q","R","S","T","U","V","W","X","Y","Z"}

Digits == {"0","1","2","3","4","5","6","7","8","9"}

Whitespace == {" "}

\* characters the user types in this model
Alphabet == {"a", "-", " "}

RECURSIVE SeqsUpTo(_, _)
SeqsUpTo(S, n) ==
    IF n = 0 THEN {<<>>}
    ELSE LET shorter == SeqsUpTo(S, n - 1)
         IN  shorter \cup {Append(s, c) : s \in {t \in shorter : Len(t) = n - 1}, c \in S}

\* texts of the username field: sequences of one-character strings
Handles == SeqsUpTo(Alphabet, MaxHandleLen)

\* value.trim() is the empty string
IsBlank(value) == \A i \in 1..Len(value) : value[i] \in Whitespace

IsAlnum(c) == c \in Letters \cup Digits

\* the pattern without its lookahead: /^[a-z\d](?:[a-z\d]|-){0,38}$/i
usernameRegexNoLookahead(value) ==
    /\ Len(value) >= 1
    /\ Len(value) <= 39
    /\ IsAlnum(value[1])
    /\ \A i \in 2..Len(value) : IsAlnum(value[i]) \/ value[i] = "-"

\* /^[a-z\d](?:[a-z\d]|-(?=[a-z\d])){0,38}$/i .test(value)
usernameRegex(value) ==
    /\ Len(value) >= 1
    /\ Len(value) <= 39
    /\ IsAlnum(value[1])
    /\ \A i \in 2..Len(value) :
          \/ IsAlnum(value[i])
          \/ /\ value[i] = "-"
             /\ i < Len(value)
             /\ IsAlnum(value[i + 1])

ErrEmpty == "Please enter a GitHub username"

ErrInvalidFormat == "Please enter a valid GitHub username"

validateUsername(value) ==
    IF IsBlank(value)
      THEN [ok |-> FALSE, error |-> ErrEmpty]
      ELSE IF ~usernameRegex(value)
             THEN [ok |-> FALSE, error |-> ErrInvalidFormat]
             ELSE [ok |-> TRUE, error |-> ""]

----------------------------------------------------------------------------
(* Responses of the two backend calls *)

\* opaque result payloads
Payloads == {"p1", "p2"}

\* what an awaited api call can do: reject (network error or non-2xx status,
\* axios throws), or return the 2xx body, which carries the success flag and
\* the data; a body with success:false may come with or without data
Outcomes ==
    {[kind |-> "throw"]}
      \cup {[kind |-> "body", success |-> TRUE, data |-> Some(p)] : p \in Payloads}
      \cup {[kind |-> "body", success |-> FALSE, data |-> None]}
      \cup {[kind |-> "body", success |-> FALSE, data |-> Some(p)] : p \in Payloads}

\* api.uploadResume(file): the multipart form it posts to /resume/analyze
uploadResume(file, name) ==
    [path |-> "/resume/analyze", resume |-> Some(file), username |-> None]

\* api.analyzeGitHub(username): the JSON it posts to /github/analyze
analyzeGitHub(name) ==
    [path |-> "/github/analyze", resume |-> None, username |-> Some(name)]

\* the call was made and has settled
Settled(o) == o.kind \in {"throw", "body"}

\* the call failed: transport error, or a body with success:false
Failed(o) == o.kind = "throw" \/ (o.kind = "body" /\ ~o.success)

\* the call returned a body with success:true
Succeeded(o) == o.kind = "body" /\ o.success

\* a call not yet settled, and a call the run did not make
Pending == [kind |-> "pending"]

Skipped == [kind |-> "skipped"]

----------------------------------------------------------------------------
(* ProgressTracker *)

\* the steps array: Resume, GitHub, Complete
steps == <<1, 2, 3>>

\* a tracker that marks the current step completed as well
ProgressTrackerCurrentCompleted(currentStep) ==
    [index \in DOMAIN steps |->
        [active    |-> currentStep >= steps[index],
         completed |-> currentStep >= steps[index],
         connector |-> IF index < Len(steps)
                         THEN Some(currentStep >= steps[index])
                         ELSE None]]

\* what ProgressTracker renders for currentStep: per step the classes of its
\* div, and the class of the connector drawn after every step but the last
ProgressTracker(currentStep) ==
    [index \in DOMAIN steps |->
        [active    |-> currentStep >= steps[index],
         completed |-> currentStep > steps[index],
         connector |-> IF index < Len(steps)
                         THEN Some(currentStep > steps[index])
                         ELSE None]]

----------------------------------------------------------------------------
(* ConversationalWidget *)

\* most mounts of the widget in one behaviour
MaxMounts == 3

AgentIds == {"", "agent_1", "agent_2"}

\* how getElevenLabsConfig() can settle: it throws, or it returns a body
\* with success and, possibly, data { configured, agentId }
ConfigOutcomes ==
    {[kind |-> "throw"]}
    \cup {[kind |-> "body", success |-> s, data |-> None] : s \in BOOLEAN}
    \cup {[kind |-> "body", success |-> s,
           data |-> Some([configured |-> c, agentId |-> a])] :
             s \in BOOLEAN, c \in BOOLEAN, a \in {None} \cup {Some(id) : id \in AgentIds}}

\* no ConversationalWidget on the page
Unmounted ==
    [mounted |-> FALSE, agentId |-> None, isLoading |-> TRUE, error |-> "",
     fetch |-> "none", response |-> None, mounts |-> 0, fetches |-> 0, stale |-> 0]

ErrNotConfigured == "ElevenLabs agent not configured"

ErrLoadFailed == "Failed to load conversational AI"

\* fetchAgentConfig after `await getElevenLabsConfig()` settled with o; reading
\* response.data.configured of a body without data throws into the catch
fetchAgentConfig(w, o) ==
    LET threw == o.kind = "throw" \/ (o.success /\ ~o.data.some)
        ok    == ~threw /\ o.success /\ o.data.val.configured
    IN  [w EXCEPT !.agentId   = IF ok THEN o.data.val.agentId ELSE @,
                  !.error     = IF threw THEN ErrLoadFailed
                                ELSE IF ok THEN @ ELSE ErrNotConfigured,
                  !.isLoading = FALSE,
                  !.fetch     = "settled",
                  !.response  = Some(o)]

\* !agentId: null and the empty string are falsy
Falsy(a) == ~a.some \/ a.val = ""

\* a render that tests the error only
WidgetRenderIgnoresAgentId(w) ==
    IF w.isLoading THEN "loading"
    ELSE IF w.error # "" THEN "unavailable"
    ELSE "embed"

\* which of its three returns the component takes
WidgetRender(w) ==
    IF w.isLoading THEN "loading"
    ELSE IF w.error # "" \/ Falsy(w.agentId) THEN "unavailable"
    ELSE "embed"

----------------------------------------------------------------------------
(* State *)

VARIABLES
    step,          \* App: useState<number>(1)
    twinData,      \* App: useState<DigitalTwinData>({})
    isProcessing,  \* App: useState(false)
    isDragging,    \* ResumeUpload: useState(false)
    selectedFile,  \* ResumeUpload: useState<File | null>(null)
    uploadError,   \* ResumeUpload: useState<string>('')
    username,      \* GitHubConnect: useState('')
    connectError,  \* GitHubConnect: useState('')
    runs,          \* executions of handleGitHubConnect suspended at an await
    lastRun,       \* history: how the most recent execution went
    exports,       \* history: artifacts downloaded since ResultsDisplay was shown
    probe,         \* result of a function called on its own, outside the wizard
    widget         \* ConversationalWidget: its useState values and its fetch

vars == <<step, twinData, isProcessing, isDragging, selectedFile, uploadError,
          username, connectError, runs, lastRun, exports, probe, widget>>

\* DigitalTwinData with every optional field undefined
EmptyTwinData ==
    [resume |-> None, resumeAnalysis |-> None, githubUsername |-> None, githubData |-> None]

NoRun == [result |-> "none"]

\* no execution since handleReset
ResetDone == [result |-> "none", reset |-> TRUE]

Init ==
    /\ step = 1
    /\ twinData = EmptyTwinData
    /\ isProcessing = FALSE
    /\ isDragging = FALSE
    /\ selectedFile = None
    /\ uploadError = ""
    /\ username = <<>>
    /\ connectError = ""
    /\ runs = <<>>
    /\ lastRun = NoRun
    /\ exports = <<>>
    /\ probe = None
    /\ widget = Unmounted

\* a component mounts with the initial values of its useState calls
MountResumeUpload ==
    /\ isDragging' = FALSE
    /\ selectedFile' = None
    /\ uploadError' = ""

MountGitHubConnect ==
    /\ username' = <<>>
    /\ connectError' = ""

----------------------------------------------------------------------------
(* ResumeUpload, rendered while step = 1 *)

handleDragOver ==
    /\ step = 1
    /\ isDragging' = TRUE
    /\ UNCHANGED <<step, twinData, isProcessing, selectedFile, uploadError,
                   username, connectError, runs, lastRun, exports, probe, widget>>

handleDragLeave ==
    /\ step = 1
    /\ isDragging' = FALSE
    /\ UNCHANGED <<step, twinData, isProcessing, selectedFile, uploadError,
                   username, connectError, runs, lastRun, exports, probe, widget>>

\* a drop or select handler that calls setSelectedFile(file) without validateFile
AcceptFileUnvalidated(file) ==
    /\ uploadError' = uploadError
    /\ selectedFile' = Some(file)

\* validateFile(file) then setSelectedFile(file) when it returned true
AcceptFile(file) ==
    LET v == validateFile(file)
    IN  /\ uploadError' = v.error
        /\ selectedFile' = IF v.ok THEN Some(file) ELSE selectedFile

handleDrop(file) ==
    /\ step = 1
    /\ isDragging' = FALSE
    /\ AcceptFile(file)
    /\ UNCHANGED <<step, twinData, isProcessing, username, connectError, runs, lastRun, exports, probe, widget>>

\* the file input is rendered only while no file is selected
handleFileSelect(file) ==
    /\ step = 1
    /\ ~selectedFile.some
    /\ AcceptFile(file)
    /\ UNCHANGED <<step, twinData, isProcessing, isDragging, username, connectError,
                   runs, lastRun, exports, probe, widget>>

\* the remove button is rendered only while a file is selected
handleRemoveFile ==
    /\ step = 1
    /\ selectedFile.some
    /\ selectedFile' = None
    /\ uploadError' = ""
    /\ UNCHANGED <<step, twinData, isProcessing, isDragging, username, connectError,
                   runs, lastRun, exports, probe, widget>>

\* a handleResumeUpload that forgets to store the file
handleResumeUploadNoStore(file) ==
    /\ UNCHANGED twinData
    /\ step' = 2

\* App.handleResumeUpload(file)
handleResumeUpload(file) ==
    /\ twinData' = [twinData EXCEPT !.resume = Some(file)]
    /\ step' = 2

\* a continue button rendered whenever a file is selected
handleUploadIgnoresError ==
    /\ step = 1
    /\ selectedFile.some
    /\ handleResumeUpload(selectedFile.val)
    /\ MountResumeUpload
    /\ MountGitHubConnect
    /\ UNCHANGED <<isProcessing, runs, lastRun, exports, probe, widget>>

\* the continue button is rendered while selectedFile && !error; handleUpload
\* calls onUpload(selectedFile), and the render that follows replaces
\* ResumeUpload by GitHubConnect
handleUpload ==
    /\ step = 1
    /\ selectedFile.some
    /\ uploadError = ""
    /\ handleResumeUpload(selectedFile.val)
    /\ MountResumeUpload
    /\ MountGitHubConnect
    /\ UNCHANGED <<isProcessing, runs, lastRun, exports, probe, widget>>

----------------------------------------------------------------------------
(* GitHubConnect, rendered while step = 2 *)

\* a username input that is not disabled while a run is in flight
handleUsernameChangeWhileProcessing(value) ==
    /\ step = 2
    /\ username' = value
    /\ connectError' = ""
    /\ UNCHANGED <<step, twinData, isProcessing, isDragging, selectedFile, uploadError,
                   runs, lastRun, exports, probe, widget>>

\* the text input is disabled while isProcessing
handleUsernameChange(value) ==
    /\ step = 2
    /\ ~isProcessing
    /\ username' = value
    /\ connectError' = ""
    /\ UNCHANGED <<step, twinData, isProcessing, isDragging, selectedFile, uploadError,
                   runs, lastRun, exports, probe, widget>>

\* a submit button that is only disabled={!username.trim()}
SubmitEnabledWhileProcessing == ~IsBlank(username)

\* the submit button is disabled={isProcessing || !username.trim()}, and a
\* form whose submit button is disabled is not submitted from its input either
SubmitEnabled == ~isProcessing /\ ~IsBlank(username)

\* handleGitHubConnect calling uploadResume without awaiting it
StartRunNoAwait(name, before) ==
    [username |-> name,
     resume   |-> before.resume,
     before   |-> before,
     stageA   |-> IF before.resume.some THEN Pending ELSE Skipped,
     pc       |-> "analyzeGitHub",
     requests |-> IF before.resume.some
                    THEN <<uploadResume(before.resume.val, name), analyzeGitHub(name)>>
                    ELSE <<analyzeGitHub(name)>>,
     trace    |-> IF before.resume.some
                    THEN <<"uploadResume:call", "analyzeGitHub:call">>
                    ELSE <<"analyzeGitHub:call">>,
     alerts   |-> 0]

\* handleGitHubConnect up to its first await: the call it makes and what the
\* suspended execution keeps in its closure.  before is the twinData of the
\* render whose handler is running.
StartRun(name, before) ==
    [username |-> name,
     resume   |-> before.resume,
     before   |-> before,
     stageA   |-> IF before.resume.some THEN Pending ELSE Skipped,
     pc       |-> IF before.resume.some THEN "uploadResume" ELSE "analyzeGitHub",
     requests |-> IF before.resume.some
                    THEN <<uploadResume(before.resume.val, name)>>
                    ELSE <<analyzeGitHub(name)>>,
     trace    |-> IF before.resume.some THEN <<"uploadResume:call">>
                                        ELSE <<"analyzeGitHub:call">>,
     alerts   |-> 0]

\* App.handleGitHubConnect(username), first task
handleGitHubConnect(name) ==
    /\ Len(runs) < MaxInFlight
    /\ isProcessing' = TRUE
    /\ twinData' = [twinData EXCEPT !.githubUsername = Some(name)]
    /\ runs' = Append(runs, StartRun(name, twinData))
    /\ lastRun' = NoRun
    /\ UNCHANGED <<step>>

\* a handleSubmit that calls onConnect whatever validateUsername returned
handleSubmitUnvalidated ==
    /\ step = 2
    /\ SubmitEnabled
    /\ connectError' = validateUsername(username).error
    /\ handleGitHubConnect(username)
    /\ UNCHANGED <<isDragging, selectedFile, uploadError, username, exports, probe, widget>>

handleSubmit ==
    /\ step = 2
    /\ SubmitEnabled
    /\ LET v == validateUsername(username)
       IN  /\ connectError' = v.error
           /\ IF v.ok
                THEN handleGitHubConnect(username)
                ELSE UNCHANGED <<step, twinData, isProcessing, runs, lastRun, exports, probe, widget>>
    /\ UNCHANGED <<isDragging, selectedFile, uploadError, username, exports, probe, widget>>

----------------------------------------------------------------------------
(* handleGitHubConnect after its awaits *)

RemoveAt(s, i) == SubSeq(s, 1, i - 1) \o SubSeq(s, i + 1, Len(s))

\* a run that calls uploadResume once more when the first call failed
AfterUploadRetry(run, o) ==
    IF Failed(o) /\ Len(run.requests) < 2
      THEN [run EXCEPT !.requests = Append(run.requests, run.requests[1]),
                       !.trace = run.trace \o <<"uploadResume:resolved", "uploadResume:call">>]
      ELSE [run EXCEPT !.stageA = o,
                       !.pc = "analyzeGitHub",
                       !.requests = Append(run.requests, analyzeGitHub(run.username)),
                       !.trace = run.trace \o <<"uploadResume:resolved", "analyzeGitHub:call">>]

\* an inner catch that alerts the user about the failed resume analysis
AfterUploadAlerts(run, o) ==
    [run EXCEPT !.stageA = o,
                !.pc = "analyzeGitHub",
                !.requests = Append(run.requests, analyzeGitHub(run.username)),
                !.trace = run.trace \o <<"uploadResume:resolved", "analyzeGitHub:call">>,
                !.alerts = IF o.kind = "throw" THEN @ + 1 ELSE @]

\* an inner catch that returns from the handler
AfterUploadReturnsOnThrow(run, o) ==
    IF o.kind = "throw"
      THEN [run EXCEPT !.stageA = o,
                       !.pc = "returned",
                       !.trace = run.trace \o <<"uploadResume:resolved">>]
      ELSE [run EXCEPT !.stageA = o,
                       !.pc = "analyzeGitHub",
                       !.requests = Append(run.requests, analyzeGitHub(run.username)),
                       !.trace = run.trace \o <<"uploadResume:resolved", "analyzeGitHub:call">>]

\* the run after `await uploadResume(...)` settled with outcome o: it goes on
\* to call analyzeGitHub on both paths of the inner try/catch
AfterUpload(run, o) ==
    [run EXCEPT !.stageA = o,
                !.pc = "analyzeGitHub",
                !.requests = Append(run.requests, analyzeGitHub(run.username)),
                !.trace = run.trace \o <<"uploadResume:resolved", "analyzeGitHub:call">>]

\* setTwinData(prev => ({ ...prev, resumeAnalysis: resumeResult.data })) when
\* the await returned; nothing when it threw
MergeResume(data, o) ==
    IF o.kind = "throw" THEN data ELSE [data EXCEPT !.resumeAnalysis = o.data]

UploadResolved(i, o) ==
    /\ i \in DOMAIN runs
    /\ runs[i].pc = "uploadResume"
    /\ twinData' = MergeResume(twinData, o)
    /\ runs' = [runs EXCEPT ![i] = AfterUpload(runs[i], o)]
    /\ UNCHANGED <<step, isProcessing, isDragging, selectedFile, uploadError,
                   username, connectError, lastRun, exports, probe, widget>>

\* how an execution ended
EndOfRun(run, o, result) ==
    [result   |-> result,
     username |-> run.username,
     resume   |-> run.resume,
     before   |-> run.before,
     stageA   |-> run.stageA,
     stageB   |-> o,
     requests |-> run.requests,
     trace    |-> run.trace,
     alerts   |-> run.alerts]

\* alert(...): one more dialog shown by this execution
Alert(run) == [run EXCEPT !.alerts = @ + 1]

\* the success branch without its setStep(3)
AnalyzeSucceededNoStep(run, o) ==
    /\ twinData' = [twinData EXCEPT !.githubUsername = Some(run.username),
                                    !.githubData = o.data]
    /\ isProcessing' = FALSE
    /\ UNCHANGED <<step, username, connectError>>
    /\ lastRun' = EndOfRun(run, o, "success")

\* the success branch without its setIsProcessing(false)
AnalyzeSucceededStillProcessing(run, o) ==
    /\ twinData' = [twinData EXCEPT !.githubUsername = Some(run.username),
                                    !.githubData = o.data]
    /\ UNCHANGED isProcessing
    /\ step' = 3
    /\ MountGitHubConnect
    /\ lastRun' = EndOfRun(run, o, "success")

\* the branch `if (result.success)`: store the GitHub data, setIsProcessing(false),
\* setStep(3); the render that follows replaces GitHubConnect by ResultsDisplay
AnalyzeSucceeded(run, o) ==
    /\ twinData' = [twinData EXCEPT !.githubUsername = Some(run.username),
                                    !.githubData = o.data]
    /\ isProcessing' = FALSE
    /\ step' = 3
    /\ MountGitHubConnect
    /\ lastRun' = EndOfRun(run, o, "success")

\* the outer catch without its setIsProcessing(false)
AnalyzeFailedStillProcessing(run, o) ==
    /\ UNCHANGED isProcessing
    /\ lastRun' = EndOfRun(Alert(run), o, "failure")
    /\ UNCHANGED <<step, twinData, username, connectError>>

\* an outer catch that sends the user back to the first step
AnalyzeFailedStepBack(run, o) ==
    /\ isProcessing' = FALSE
    /\ step' = 1
    /\ lastRun' = EndOfRun(Alert(run), o, "failure")
    /\ UNCHANGED <<twinData, username, connectError>>

\* an outer catch that drops the uploaded file
AnalyzeFailedDropsResume(run, o) ==
    /\ isProcessing' = FALSE
    /\ twinData' = [twinData EXCEPT !.resume = None]
    /\ lastRun' = EndOfRun(Alert(run), o, "failure")
    /\ UNCHANGED <<step, username, connectError>>

\* the outer catch, reached when the await threw or result.success was false:
\* setIsProcessing(false) and alert(...)
AnalyzeFailed(run, o) ==
    /\ isProcessing' = FALSE
    /\ lastRun' = EndOfRun(Alert(run), o, "failure")
    /\ UNCHANGED <<step, twinData, username, connectError>>

AnalyzeResolved(i, o) ==
    /\ i \in DOMAIN runs
    /\ runs[i].pc = "analyzeGitHub"
    /\ IF o.kind = "body" /\ o.success
         THEN AnalyzeSucceeded(runs[i], o)
         ELSE AnalyzeFailed(runs[i], o)
    /\ runs' = RemoveAt(runs, i)
    /\ UNCHANGED <<isDragging, selectedFile, uploadError, exports, probe, widget>>

----------------------------------------------------------------------------
(* ResultsDisplay, rendered while step = 3 *)

\* a reset that keeps the uploaded file
handleResetKeepsResume ==
    /\ step = 3
    /\ step' = 1
    /\ twinData' = [EmptyTwinData EXCEPT !.resume = twinData.resume]
    /\ isProcessing' = FALSE
    /\ MountResumeUpload
    /\ lastRun' = ResetDone
    /\ exports' = <<>>
    /\ UNCHANGED <<username, connectError, runs, probe, widget>>

\* a reset that forgets setTwinData({})
handleResetKeepsData ==
    /\ step = 3
    /\ step' = 1
    /\ UNCHANGED twinData
    /\ isProcessing' = FALSE
    /\ MountResumeUpload
    /\ lastRun' = ResetDone
    /\ exports' = <<>>
    /\ UNCHANGED <<username, connectError, runs, probe, widget>>

\* a reset that keeps the GitHub username
handleResetKeepsUsername ==
    /\ step = 3
    /\ step' = 1
    /\ twinData' = [EmptyTwinData EXCEPT !.githubUsername = twinData.githubUsername]
    /\ isProcessing' = FALSE
    /\ MountResumeUpload
    /\ lastRun' = ResetDone
    /\ exports' = <<>>
    /\ UNCHANGED <<username, connectError, runs, probe, widget>>

\* a reset that can also be called from the second step
handleResetFromStep2 ==
    /\ step >= 2
    /\ step' = 1
    /\ twinData' = EmptyTwinData
    /\ isProcessing' = FALSE
    /\ MountResumeUpload
    /\ MountGitHubConnect
    /\ lastRun' = ResetDone
    /\ exports' = <<>>
    /\ UNCHANGED <<runs, probe, widget>>

\* App.handleReset, the onReset of ResultsDisplay; the render that follows
\* replaces ResultsDisplay by ResumeUpload
handleReset ==
    /\ step = 3
    /\ step' = 1
    /\ twinData' = EmptyTwinData
    /\ isProcessing' = FALSE
    /\ MountResumeUpload
    /\ lastRun' = ResetDone
    /\ exports' = <<>>
    /\ UNCHANGED <<username, connectError, runs, probe, widget>>

\* an export object that takes the file's type for its name
ExportDataTypeForName(data, now) ==
    [resume    |-> IF data.resume.some THEN Some(data.resume.val.type) ELSE None,
     github    |-> data.githubUsername,
     timestamp |-> now]

\* the object handleExport serializes with JSON.stringify; a field whose
\* value is undefined is left out of the document
ExportData(data, now) ==
    [resume    |-> IF data.resume.some THEN Some(data.resume.val.name) ELSE None,
     github    |-> data.githubUsername,
     timestamp |-> now]

\* an export that drops the analysis it has written out
handleExportClearsData(now) ==
    /\ step = 3
    /\ Len(exports) < MaxExports
    /\ exports' = Append(exports, ExportData(twinData, now))
    /\ twinData' = [twinData EXCEPT !.githubData = None]
    /\ UNCHANGED <<step, isProcessing, isDragging, selectedFile, uploadError,
                   username, connectError, runs, lastRun, probe, widget>>

\* ResultsDisplay.handleExport, with new Date() reading now
handleExport(now) ==
    /\ step = 3
    /\ Len(exports) < MaxExports
    /\ exports' = Append(exports, ExportData(twinData, now))
    /\ UNCHANGED <<step, twinData, isProcessing, isDragging, selectedFile, uploadError,
                   username, connectError, runs, lastRun, probe, widget>>

----------------------------------------------------------------------------

Next ==
    \/ handleDragOver
    \/ handleDragLeave
    \/ \E file \in Files : handleDrop(file)
    \/ \E file \in Files : handleFileSelect(file)
    \/ handleRemoveFile
    \/ handleUpload
    \/ \E value \in Handles : handleUsernameChange(value)
    \/ handleSubmit
    \/ \E i \in 1..MaxInFlight : \E o \in Outcomes : UploadResolved(i, o)
    \/ \E i \in 1..MaxInFlight : \E o \in Outcomes : AnalyzeResolved(i, o)
    \/ handleReset
    \/ \E now \in 1..MaxClock : handleExport(now)

Spec == Init /\ [][Next]_vars

----------------------------------------------------------------------------
(* validateUsername called on its own, on every text of a larger set *)

ProbeAlphabet == {"a", "Z", "7", "-", " ", "_"}

RECURSIVE Rep(_, _)
Rep(c, n) == IF n = 0 THEN <<>> ELSE <<c>> \o Rep(c, n - 1)

\* handles around the length limit of the pattern, 1 + 38 characters
LongHandles ==
    {Rep("a", 39), Rep("a", 40), Rep("7", 39),
     Rep("a", 38) \o <<"-">>,
     Rep("a", 37) \o <<"-", "Z">>,
     Rep("a", 38) \o <<"-", "Z">>,
     Rep("a", 19) \o <<"-", "-">> \o Rep("a", 18),
     Rep(" ", 40)}

ProbeHandles == SeqsUpTo(ProbeAlphabet, MaxProbeLen) \cup LongHandles

\* GitHubConnect is shown with some text in its username field
InitValidator ==
    /\ step = 2
    /\ \E file \in Files :
          /\ validateFile(file).ok
          /\ twinData = [EmptyTwinData EXCEPT !.resume = Some(file)]
    /\ isProcessing = FALSE
    /\ isDragging = FALSE
    /\ selectedFile = None
    /\ uploadError = ""
    /\ username \in ProbeHandles
    /\ connectError = ""
    /\ runs = <<>>
    /\ lastRun = NoRun
    /\ exports = <<>>
    /\ probe = None
    /\ widget = Unmounted

\* validateUsername(username): its setError and the boolean it returns
callValidateUsername ==
    /\ step = 2
    /\ ~probe.some
    /\ LET v == validateUsername(username)
       IN  /\ connectError' = v.error
           /\ probe' = Some(v.ok)
    /\ UNCHANGED <<step, twinData, isProcessing, isDragging, selectedFile, uploadError,
                   username, runs, lastRun, exports, widget>>

NextValidator == callValidateUsername

ValidatorSpec == InitValidator /\ [][NextValidator]_vars

----------------------------------------------------------------------------
(* ConversationalWidget mounted on its own *)

WizardIdle ==
    UNCHANGED <<step, twinData, isProcessing, isDragging, selectedFile, uploadError,
                username, connectError, runs, lastRun, exports, probe>>

\* first render and the effect that follows it: the three useState initial
\* values, then fetchAgentConfig up to its await
mountWidget ==
    /\ ~widget.mounted
    /\ widget.mounts < MaxMounts
    /\ widget' = [Unmounted EXCEPT !.mounted = TRUE,
                                   !.isLoading = TRUE,
                                   !.fetch = "pending",
                                   !.mounts = widget.mounts + 1,
                                   !.fetches = widget.fetches + 1,
                                   !.stale = widget.stale]
    /\ WizardIdle

\* getElevenLabsConfig() settles while the widget is mounted
configResolved(o) ==
    /\ widget.mounted
    /\ widget.fetch = "pending"
    /\ widget' = fetchAgentConfig(widget, o)
    /\ WizardIdle

\* the widget leaves the page; its state is dropped, a fetch still on its
\* way stays on its way
unmountWidget ==
    /\ widget.mounted
    /\ widget' = [Unmounted EXCEPT !.mounts = widget.mounts,
                                   !.fetches = widget.fetches,
                                   !.stale = widget.stale
                                             + (IF widget.fetch = "pending" THEN 1 ELSE 0)]
    /\ WizardIdle

\* the fetch of an instance that is gone settles: its setState calls act on
\* no mounted component
staleConfigResolved ==
    /\ widget.stale > 0
    /\ widget' = [widget EXCEPT !.stale = @ - 1]
    /\ WizardIdle

NextWidget ==
    \/ mountWidget
    \/ \E o \in ConfigOutcomes : configResolved(o)
    \/ unmountWidget
    \/ staleConfigResolved

WidgetSpec == Init /\ [][NextWidget]_vars

TypeOK ==
    /\ step \in 1..3
    /\ isProcessing \in BOOLEAN
    /\ isDragging \in BOOLEAN
    /\ username \in Handles
    /\ Len(runs) <= MaxInFlight

----------------------------------------------------------------------------
(* Properties *)

\* position of the first occurrence of event e in trace t, 0 when absent
RECURSIVE IndexOf(_, _, _)
IndexOf(t, e, i) ==
    IF i > Len(t) THEN 0
    ELSE IF t[i] = e THEN i ELSE IndexOf(t, e, i + 1)

Count(t, e) == Cardinality({i \in 1..Len(t) : t[i] = e})

\* calls of a suspended run that have been made and have not settled
OutstandingCalls(run) ==
    Count(run.trace, "uploadResume:call") + Count(run.trace, "analyzeGitHub:call")
      - Count(run.trace, "uploadResume:resolved")

RECURSIVE SumOutstanding(_)
SumOutstanding(rs) ==
    IF rs = <<>> THEN 0 ELSE OutstandingCalls(Head(rs)) + SumOutstanding(Tail(rs))

\* C1: in every run, analyzeGitHub (Stage B) is not called before the
\* uploadResume call (Stage A) of the same run has resolved, with success or
\* with failure: wherever a run's call order holds the Stage A call, the
\* Stage B call comes after Stage A's resolution.
StageBAfterStageA ==
    \A i \in DOMAIN runs :
        LET t == runs[i].trace
            a == IndexOf(t, "uploadResume:call", 1)
            r == IndexOf(t, "uploadResume:resolved", 1)
            b == IndexOf(t, "analyzeGitHub:call", 1)
        IN  (a > 0 /\ b > 0) => (a < r /\ r < b)

\* a run whose Stage A failed is waiting for Stage B
StageBCalledAfterFailedStageA ==
    \E i \in DOMAIN runs :
        /\ runs[i].pc = "analyzeGitHub"
        /\ Failed(runs[i].stageA)
        /\ IndexOf(runs[i].trace, "uploadResume:call", 1) > 0

\* C2: a run whose uploadResume failed and whose analyzeGitHub succeeded ends
\* at step 3 with resumeAnalysis absent and githubData present, also when it
\* is a retry after a failed run.
PartialFailureEndsInSuccess ==
    (lastRun.result # "none" /\ Failed(lastRun.stageA) /\ Succeeded(lastRun.stageB))
      => /\ lastRun.result = "success"
         /\ step = 3
         /\ ~twinData.resumeAnalysis.some
         /\ twinData.githubData.some

\* C3: when analyzeGitHub failed (it threw, or returned success:false), the
\* run ends with step still 2, isProcessing false and the resume file that
\* was stored before the run started.
TotalFailureStaysOnStep2 ==
    (lastRun.result # "none" /\ Failed(lastRun.stageB))
      => /\ step = 2
         /\ ~isProcessing
         /\ twinData.resume = lastRun.before.resume
         /\ twinData.resume.some

\* a run has ended on a body with success:false from analyzeGitHub
RunEndedOnReportedFailure ==
    /\ lastRun.result # "none"
    /\ lastRun.stageB.kind = "body"
    /\ ~lastRun.stageB.success

\* C4: when analyzeGitHub failed, resumeAnalysis and githubData are what they
\* were before the run started.
FailedRunMergesNothing ==
    (lastRun.result # "none" /\ Failed(lastRun.stageB))
      => /\ twinData.resumeAnalysis = lastRun.before.resumeAnalysis
         /\ twinData.githubData = lastRun.before.githubData

\* C5: githubData present implies step = 3.
GithubDataOnlyAtStep3 == twinData.githubData.some => step = 3

GithubDataStored == twinData.githubData.some /\ lastRun.result = "success"

\* C6: isProcessing implies step = 2.
ProcessingOnlyAtStep2 == isProcessing => step = 2

ProcessingAtStep2 == isProcessing /\ step = 2 /\ Len(runs) = 1

\* C7: single flight: at most one run and at most one outbound call are in
\* flight, and no run begins while isProcessing is true.
SingleFlight ==
    /\ [](Len(runs) <= 1 /\ SumOutstanding(runs) <= 1)
    /\ [][isProcessing => Len(runs') <= Len(runs)]_vars

\* a run is in flight and the username field holds text that could be submitted
RunInFlightWithUsernameTyped ==
    /\ isProcessing
    /\ Len(runs) = 1
    /\ SumOutstanding(runs) = 1
    /\ ~IsBlank(username)

\* C8: step is always 1, 2 or 3, and only handleReset decreases it.
StepMonotoneExceptReset ==
    /\ [](step \in {1, 2, 3})
    /\ [][step' < step => handleReset]_vars

\* a run has failed at step 2, where a step back would show
FailedRunLeftStepAt2 == step = 2 /\ lastRun.result = "failure"

\* C9: step goes from 1 to 2 only by handleUpload of a selected file that
\* validateFile accepts, and twinData.resume is then that file; dropping or
\* selecting a file that validateFile rejects changes neither step nor
\* twinData.resume.
ResumeStepOnlyWithAcceptedFile ==
    [][ /\ (step = 1 /\ step' = 2)
            => /\ handleUpload
               /\ selectedFile.some
               /\ validateFile(selectedFile.val).ok
               /\ twinData'.resume = selectedFile
        /\ \A file \in Files :
             (~validateFile(file).ok /\ (handleDrop(file) \/ handleFileSelect(file)))
               => (step' = step /\ twinData'.resume = twinData.resume)
      ]_vars

\* the wizard has reached step 2 with a stored resume
ResumeStored == step = 2 /\ twinData.resume.some /\ lastRun.result = "none"

\* C10: a file whose type is not in validTypes is rejected with the
\* unsupported-type message and is not selected, whatever its size.
DisallowedTypeRejected ==
    [][ \A file \in Files :
          (file.type \notin validTypes /\ (handleDrop(file) \/ handleFileSelect(file)))
            => /\ uploadError' = ErrUnsupportedType
               /\ selectedFile' = selectedFile
               /\ (selectedFile'.some => selectedFile'.val # file)
      ]_vars

\* a file of a disallowed type has been rejected while a valid file is selected
UnsupportedTypeShown == uploadError = ErrUnsupportedType /\ selectedFile.some

\* C11: a file of a type in validTypes is accepted, and becomes the selected
\* file, exactly when its size is at most 10 * 1024 * 1024 bytes; a larger one
\* is rejected with the too-large message.
AllowedTypeAcceptedUpToLimit ==
    [][ \A file \in Files :
          (file.type \in validTypes /\ (handleDrop(file) \/ handleFileSelect(file)))
            => IF file.size <= 10 * 1024 * 1024
                 THEN uploadError' = "" /\ selectedFile' = Some(file)
                 ELSE uploadError' = ErrTooLarge /\ selectedFile' = selectedFile
      ]_vars

\* a file of exactly the limit is selected and a larger one has been rejected
LimitFileSelectedLargerRejected ==
    /\ selectedFile.some
    /\ selectedFile.val.size = 10 * 1024 * 1024
    /\ uploadError = ErrTooLarge

\* the grammar of a handle: 1 to 39 characters, each alphanumeric or a
\* hyphen, no hyphen first or last, no two hyphens in a row
HandleGrammar(h) ==
    /\ Len(h) \in 1..39
    /\ \A i \in 1..Len(h) : h[i] \in Letters \cup Digits \cup {"-"}
    /\ h[1] # "-"
    /\ h[Len(h)] # "-"
    /\ \A i \in 1..(Len(h) - 1) : ~(h[i] = "-" /\ h[i + 1] = "-")

\* C12: validateUsername answers Empty for an empty or whitespace-only
\* handle, accepts a non-blank handle exactly when it follows the grammar,
\* and answers InvalidFormat for every other handle.
UsernameValidatorFollowsGrammar ==
    probe.some =>
        IF \A i \in 1..Len(username) : username[i] = " "
          THEN ~probe.val /\ connectError = ErrEmpty
          ELSE IF HandleGrammar(username)
                 THEN probe.val /\ connectError = ""
                 ELSE ~probe.val /\ connectError = ErrInvalidFormat

\* a handle of 39 characters with a hyphen inside has been accepted
LongHyphenHandleAccepted ==
    /\ probe = Some(TRUE)
    /\ Len(username) = 39
    /\ \E i \in 1..Len(username) : username[i] = "-"

\* C13: while the username field holds a handle that validateUsername
\* rejects, no step other than retyping changes step, twinData, isProcessing
\* or the outstanding calls: submitting it starts no run.
RejectedUsernameChangesNothing ==
    [][ (step = 2 /\ ~validateUsername(username).ok /\ username' = username)
          => UNCHANGED <<step, twinData, isProcessing, runs>> ]_vars

\* a malformed handle has been submitted and refused
MalformedHandleRefused ==
    /\ step = 2
    /\ connectError = ErrInvalidFormat
    /\ ~isProcessing
    /\ runs = <<>>

\* C14: at step 3 reset is always possible, and leaving step 3 yields the
\* initial wizard state: step 1, every twinData field absent, isProcessing
\* false.
ResetRestoresInitialState ==
    /\ [](step = 3 => ENABLED handleReset)
    /\ [][ (step = 3 /\ step' # 3)
             => (step' = 1 /\ twinData' = EmptyTwinData /\ ~isProcessing') ]_vars

\* the wizard has been reset
WizardWasReset == lastRun = ResetDone /\ step = 1 /\ twinData = EmptyTwinData

\* C15: when analyzeGitHub returned success:true, the run ends with step 3,
\* isProcessing false, githubData the payload of that response and
\* githubUsername the handle submitted for the run.
StageBSuccessStoresResult ==
    (lastRun.result # "none" /\ Succeeded(lastRun.stageB))
      => /\ lastRun.result = "success"
         /\ step = 3
         /\ ~isProcessing
         /\ twinData.githubData = lastRun.stageB.data
         /\ twinData.githubUsername = Some(lastRun.username)

\* a run has ended on a success:true body
RunEndedOnSuccessBody ==
    /\ lastRun.result # "none"
    /\ Succeeded(lastRun.stageB)
    /\ lastRun.stageB.data.some

\* C16: a body with success:false from uploadResume is treated like a
\* transport error: resumeAnalysis is not set from it and stays what it was
\* when the run started, and the run goes on to analyzeGitHub.
ReportedResumeFailureNotMerged ==
    \A i \in DOMAIN runs :
        (runs[i].stageA.kind = "body" /\ ~runs[i].stageA.success)
          => /\ runs[i].pc = "analyzeGitHub"
             /\ twinData.resumeAnalysis = runs[i].before.resumeAnalysis

\* C17: the request uploadResume sends carries the run's username, the same
\* username as the run's analyzeGitHub request.
RequestsCarryRunUsername ==
    \A i \in DOMAIN runs :
        \A k \in DOMAIN runs[i].requests :
            runs[i].requests[k].username = Some(runs[i].username)

\* C18: no automatic retry: a run calls uploadResume at most once and
\* analyzeGitHub exactly once, no call is outstanding once a run has ended,
\* and from a state without outstanding calls only a submit of the user
\* makes a call.
NoAutomaticRetry ==
    /\ [](\A i \in DOMAIN runs :
             /\ Count(runs[i].trace, "uploadResume:call") <= 1
             /\ Count(runs[i].trace, "analyzeGitHub:call") <= 1)
    /\ [](lastRun.result # "none"
            => /\ runs = <<>>
               /\ Count(lastRun.trace, "uploadResume:call") <= 1
               /\ Count(lastRun.trace, "analyzeGitHub:call") = 1)
    /\ [][ (runs = <<>> /\ runs' # <<>>) => handleSubmit ]_vars

\* a run whose two calls both failed has ended and nothing is outstanding
BothCallsFailedNothingOutstanding ==
    /\ lastRun.result = "failure"
    /\ Failed(lastRun.stageA)
    /\ Failed(lastRun.stageB)
    /\ runs = <<>>

\* C19: an export changes neither step, twinData nor isProcessing and makes
\* no outbound call, however many exports are made.
ExportChangesNothing ==
    [][ Len(exports') > Len(exports)
          => (UNCHANGED <<step, twinData, isProcessing, runs>> /\ runs = <<>>) ]_vars

\* two exports have been made from step 3
ExportedTwice == step = 3 /\ Len(exports) >= 2

\* C20: all exports of one wizard state agree on everything but the
\* timestamp: resume is the name of the stored file and github is the stored
\* githubUsername.
ExportsAgreeExceptTimestamp ==
    \A i \in DOMAIN exports :
        /\ twinData.resume.some
        /\ exports[i].resume = Some(twinData.resume.val.name)
        /\ exports[i].github = twinData.githubUsername
        /\ exports[i].github.some
        /\ \A j \in DOMAIN exports :
             /\ exports[i].resume = exports[j].resume
             /\ exports[i].github = exports[j].github

\* two exports of the same state carry different timestamps
ExportedTwiceAtDifferentTimes ==
    /\ Len(exports) >= 2
    /\ exports[1].timestamp # exports[2].timestamp

\* C21: a failed uploadResume neither ends the run nor shows the user a
\* failure: the run goes on to call analyzeGitHub once with the submitted
\* username and has shown no alert; a run that ended has shown exactly one
\* alert when analyzeGitHub failed and none when it succeeded.
StageAFailureNeverAlerts ==
    /\ \A i \in DOMAIN runs :
          /\ runs[i].alerts = 0
          /\ Failed(runs[i].stageA)
               => /\ runs[i].pc = "analyzeGitHub"
                  /\ Count(runs[i].trace, "analyzeGitHub:call") = 1
                  /\ runs[i].requests[Len(runs[i].requests)] = analyzeGitHub(runs[i].username)
    /\ lastRun.result # "none"
         => /\ lastRun.alerts = (IF Failed(lastRun.stageB) THEN 1 ELSE 0)
            /\ (lastRun.alerts = 1) <=> (lastRun.result = "failure")
            /\ Count(lastRun.trace, "analyzeGitHub:call") = 1
            /\ lastRun.requests[Len(lastRun.requests)] = analyzeGitHub(lastRun.username)

\* uploadResume failed, analyzeGitHub succeeded, and no alert was shown
StageAFailedWithoutAlert ==
    /\ lastRun.result = "success"
    /\ Failed(lastRun.stageA)
    /\ lastRun.alerts = 0
    /\ step = 3

\* C22: after a run that ended in the outer catch the user can submit again
\* without uploading again: at step 2 a submit of a valid username is
\* enabled and starts a run, and the run started then calls uploadResume
\* with the file the failed run had, whatever its uploadResume returned.
RetrySubmit == handleSubmit /\ runs' # <<>>

RetryReusesResume ==
    /\ [](lastRun.result = "failure"
            => /\ step = 2
               /\ twinData.resume = lastRun.resume
               /\ twinData.resume.some
               /\ (validateUsername(username).ok => ENABLED RetrySubmit))
    /\ [][ (lastRun.result = "failure" /\ runs' # runs)
             => /\ handleSubmit
                /\ Len(runs') = 1
                /\ runs'[1].pc = "uploadResume"
                /\ runs'[1].stageA = Pending
                /\ runs'[1].requests = <<uploadResume(lastRun.resume.val, username)>> ]_vars

\* a run started after a failed one, whose uploadResume had succeeded, waits
\* for uploadResume again
RetryAwaitsUploadAgain ==
    \E i \in DOMAIN runs :
        /\ runs[i].before.githubUsername.some
        /\ runs[i].before.resumeAnalysis.some
        /\ runs[i].pc = "uploadResume"
        /\ runs[i].requests[1].resume = twinData.resume

----------------------------------------------------------------------------
(* Every outbound call settles *)

\* a PDF of exactly the size limit
LimitPdf == [name |-> FileName("application/pdf"), type |-> "application/pdf", size |-> maxSize]

\* GitHubConnect has just been mounted: a file that passed validateFile is
\* stored and step is 2
InitConnect ==
    /\ step = 2
    /\ validateFile(LimitPdf).ok
    /\ twinData = [EmptyTwinData EXCEPT !.resume = Some(LimitPdf)]
    /\ isProcessing = FALSE
    /\ isDragging = FALSE
    /\ selectedFile = None
    /\ uploadError = ""
    /\ username = <<>>
    /\ connectError = ""
    /\ runs = <<>>
    /\ lastRun = NoRun
    /\ exports = <<>>
    /\ probe = None
    /\ widget = Unmounted

ResolveUpload == \E i \in 1..MaxInFlight : \E o \in Outcomes : UploadResolved(i, o)

ResolveAnalyze == \E i \in 1..MaxInFlight : \E o \in Outcomes : AnalyzeResolved(i, o)

\* what can happen while GitHubConnect is shown
NextConnect ==
    \/ \E value \in Handles : handleUsernameChange(value)
    \/ handleSubmit
    \/ ResolveUpload
    \/ ResolveAnalyze

\* the second step of the wizard when no awaited call stays unsettled for ever
FairSpec ==
    /\ InitConnect
    /\ [][NextConnect]_vars
    /\ WF_vars(ResolveUpload)
    /\ WF_vars(ResolveAnalyze)

\* C23: when every call settles, a started run is followed by a state with
\* isProcessing false; isProcessing is true exactly while a run has not
\* ended, and a run that ended left the wizard at step 3 when analyzeGitHub
\* succeeded and at step 2 when it failed.
RunsEventuallyEnd ==
    /\ isProcessing ~> ~isProcessing
    /\ [](isProcessing <=> runs # <<>>)
    /\ [](lastRun.result # "none"
            => /\ ~isProcessing
               /\ (lastRun.result = "success") <=> Succeeded(lastRun.stageB)
               /\ step = (IF Succeeded(lastRun.stageB) THEN 3 ELSE 2))

\* a run has ended after both of its calls settled, and isProcessing is off
RunEndedProcessingOff ==
    /\ lastRun.result # "none"
    /\ Settled(lastRun.stageA)
    /\ ~isProcessing
    /\ runs = <<>>

\* C24: a run in flight is neither cancelled nor timed out: while it waits
\* the wizard is at step 2 with isProcessing true, submit, upload, reset and
\* export are disabled, and the only step the wizard can take is the
\* settling of the awaited call.
NoCancellationWhileInFlight ==
    /\ [](runs # <<>>
            => /\ step = 2
               /\ isProcessing
               /\ ~ENABLED handleSubmit
               /\ ~ENABLED handleUpload
               /\ ~ENABLED handleReset
               /\ ~ENABLED (\E now \in 1..MaxClock : handleExport(now)))
    /\ [][ runs # <<>>
             => \E i \in DOMAIN runs : \E o \in Outcomes :
                   UploadResolved(i, o) \/ AnalyzeResolved(i, o) ]_vars

\* a run waits for analyzeGitHub after its uploadResume has settled
RunAwaitingAnalyze ==
    /\ Len(runs) = 1
    /\ runs[1].pc = "analyzeGitHub"
    /\ Settled(runs[1].stageA)
    /\ isProcessing
    /\ step = 2

\* C25: from step 2 on the stored resume is present and is a file of an
\* allowed type of at most 10 MiB; so every run calls uploadResume first
\* with that file, and every export carries a resume name.
ResumeAlwaysPresentFromStep2 ==
    /\ step >= 2
         => /\ twinData.resume.some
            /\ twinData.resume.val.type \in validTypes
            /\ twinData.resume.val.size <= 10 * 1024 * 1024
    /\ \A i \in DOMAIN runs :
          /\ runs[i].stageA # Skipped
          /\ runs[i].trace[1] = "uploadResume:call"
          /\ runs[i].requests[1].resume = twinData.resume
    /\ lastRun.result # "none"
         => /\ lastRun.stageA # Skipped
            /\ lastRun.trace[1] = "uploadResume:call"
    /\ \A k \in DOMAIN exports : exports[k].resume.some

\* a run that called uploadResume reached step 3 and its resume was exported
ExportCarriesResumeName ==
    /\ step = 3
    /\ Len(exports) >= 1
    /\ exports[1].resume = Some(twinData.resume.val.name)
    /\ lastRun.trace[1] = "uploadResume:call"

\* C26: githubUsername, when present, is a handle validateUsername accepts
\* and the wizard is at step 2 or 3; at step 3 it is present and is the
\* username of the most recent run, whose analyzeGitHub payload is the
\* stored githubData.
GithubUsernameIsLastAcceptedHandle ==
    /\ twinData.githubUsername.some
         => /\ validateUsername(twinData.githubUsername.val).ok
            /\ HandleGrammar(twinData.githubUsername.val)
            /\ step >= 2
    /\ \A i \in DOMAIN runs : twinData.githubUsername = Some(runs[i].username)
    /\ step = 3
         => /\ twinData.githubUsername.some
            /\ lastRun.result = "success"
            /\ twinData.githubUsername = Some(lastRun.username)
            /\ twinData.githubData = lastRun.stageB.data

\* step 3 was reached by a run submitted with another handle than the run
\* before it
Step3AfterRetryWithOtherHandle ==
    /\ step = 3
    /\ lastRun.before.githubUsername.some
    /\ lastRun.before.githubUsername # Some(lastRun.username)
    /\ twinData.githubUsername = Some(lastRun.username)

\* C27: handleReset can only be called at step 3, where no run is in
\* flight; so after a reset no call made before it is outstanding, and every
\* run in flight was started in the current session, from the resume and
\* with the username the wizard now holds.
ResetNeverDuringRun ==
    /\ [](ENABLED handleReset => (step = 3 /\ runs = <<>>))
    /\ [][ step' < step => (step = 3 /\ runs = <<>> /\ runs' = <<>>) ]_vars
    /\ [](lastRun = ResetDone => runs = <<>>)
    /\ [](\A i \in DOMAIN runs :
             /\ runs[i].resume = twinData.resume
             /\ Some(runs[i].username) = twinData.githubUsername)

\* a resume was uploaded after a reset, and no call is outstanding
NewSessionAfterReset ==
    /\ lastRun = ResetDone
    /\ step = 2
    /\ twinData.resume.some
    /\ runs = <<>>

\* C28: at the upload step the continue button can be used exactly when a
\* file is selected and no error is shown; a selected file always passed
\* validateFile; dropping a rejected file leaves the selection as it was and
\* shows an error, and an error shown next to a selected file goes away
\* only when the file is removed or an accepted file is dropped.
UploadEnabledIffSelectedNoError ==
    /\ [](step = 1 => (ENABLED handleUpload <=> (selectedFile.some /\ uploadError = "")))
    /\ [](selectedFile.some => validateFile(selectedFile.val).ok)
    /\ [][ \A file \in Files :
             (handleDrop(file) /\ ~validateFile(file).ok)
               => (selectedFile' = selectedFile /\ uploadError' # "") ]_vars
    /\ [][ (step = 1 /\ selectedFile.some /\ uploadError # "" /\ uploadError' = "")
             => \/ handleRemoveFile
                \/ \E file \in Files : validateFile(file).ok /\ handleDrop(file) ]_vars

\* a file is selected, an error is shown, and the continue button is gone
SelectedFileBlockedByError ==
    /\ step = 1
    /\ selectedFile.some
    /\ validateFile(selectedFile.val).ok
    /\ uploadError # ""
    /\ ~ENABLED handleUpload

\* the settled fetch returned success, configured and an agentId that is
\* not empty
ConfiguredResponse(w) ==
    /\ w.response.some
    /\ w.response.val.kind = "body"
    /\ w.response.val.success
    /\ w.response.val.data.some
    /\ w.response.val.data.val.configured
    /\ w.response.val.data.val.agentId.some
    /\ w.response.val.data.val.agentId.val # ""

\* C29: ConversationalWidget fetches its configuration once per mount; once
\* that fetch has settled isLoading is false and stays false while the
\* widget is mounted; the embed is rendered exactly when the fetch returned
\* success, configured and a non-empty agentId, with that agentId, and the
\* unavailable card after every other settled fetch.
WidgetFetchesOnceAndRendersByConfig ==
    /\ [](widget.fetches = widget.mounts)
    /\ [](widget.mounted
            => /\ widget.fetch \in {"pending", "settled"}
               /\ (widget.fetch = "settled") <=> ~widget.isLoading
               /\ (widget.fetch = "pending") <=> (WidgetRender(widget) = "loading"))
    /\ [][ (widget.mounted /\ widget'.mounted /\ ~widget.isLoading)
             => (~widget'.isLoading /\ widget'.fetches = widget.fetches) ]_vars
    /\ [](widget.mounted
            => /\ (WidgetRender(widget) = "embed") <=> ConfiguredResponse(widget)
               /\ (WidgetRender(widget) = "unavailable")
                    <=> (widget.fetch = "settled" /\ ~ConfiguredResponse(widget))
               /\ (WidgetRender(widget) = "embed")
                    => widget.agentId = widget.response.val.data.val.agentId)

\* the fetch returned success and configured with an empty agentId, and the
\* unavailable card is shown
UnavailableOnEmptyAgentId ==
    /\ widget.mounted
    /\ widget.fetch = "settled"
    /\ widget.response.val.kind = "body"
    /\ widget.response.val.success
    /\ widget.response.val.data.some
    /\ widget.response.val.data.val.configured
    /\ widget.response.val.data.val.agentId = Some("")
    /\ WidgetRender(widget) = "unavailable"

\* C30: with currentStep the wizard's step, ProgressTracker marks step n
\* active exactly when currentStep >= n and completed exactly when
\* currentStep > n; a completed step is active, step 1 is active, step 3 is
\* never completed, and the connector after steps 1 and 2 is completed
\* exactly when its step is; there is no connector after step 3.
ProgressTrackerMarksSteps ==
    LET t == ProgressTracker(step)
    IN  /\ DOMAIN t = 1..3
        /\ \A n \in 1..3 :
              /\ t[n].active <=> (step >= n)
              /\ t[n].completed <=> (step > n)
              /\ t[n].completed => t[n].active
              /\ n < 3 => t[n].connector = Some(t[n].completed)
        /\ t[1].active
        /\ ~t[3].completed
        /\ t[3].connector = None

\* at the last step the first two steps are completed and the third is
\* active only
TrackerAtLastStep ==
    /\ step = 3
    /\ ProgressTracker(step)[1].completed
    /\ ProgressTracker(step)[2].completed
    /\ ProgressTracker(step)[2].connector = Some(TRUE)
    /\ ProgressTracker(step)[3].active
    /\ ~ProgressTracker(step)[3].completed

====
